---- MODULE Spec2Model ----
(***************************************************************************)
(* State-machine model of the observable agent:                            *)
(*   - CostTracker / QueryCost / StepCost (observability/cost_tracker.py)  *)
(*   - ObservableAgent.run and _execute_tool (agent/observable_agent.py)   *)
(* Money is counted in units of 10^-8 USD, so that                         *)
(*   (tokens / 1_000_000) * 0.15  is  tokens * 15                          *)
(*   (tokens / 1_000_000) * 0.60  is  tokens * 60                          *)
(* and all sums are exact.                                                 *)
(***************************************************************************)
EXTENDS Integers, Sequences, FiniteSets, TLC

\* ---------------------------------------------------------------- bounds
\* largest max_steps an agent is configured with
MaxStepsBound == 2
\* most tool calls one gateway response requests
MaxCalls == 2
\* most tool calls the gateway requests over one run
MaxTotalCalls == 2
\* TrackerSpec: most StepCosts recorded by one CostTracker
MaxLoggedSteps == 3
\* TrackerSpec: most ledgers in the completed list
MaxQueries == 2
\* MainSpec: most gateway responses in one run of the pipeline
MaxPipelineSteps == 2

\* ------------------------------------------------------- program constants
\* 0.15 USD per 1M input tokens, in 10^-8 USD per token
InputRate == 15
\* 0.60 USD per 1M output tokens, in 10^-8 USD per token
OutputRate == 60

\* Python's None where a text is expected
NoneVal == "<None>"
\* Python's None where a token count is expected
NoneTok == -1
\* a response without a `model` attribute
NoModel == "<no model attribute>"

VARIABLES
    queries,          \* CostTracker.queries: the completed ledgers
    current_query,    \* CostTracker._current_query: <<>> (None) or <<ledger>>
    raised,           \* whether the last direct CostTracker call raised
    last_call,        \* the last direct CostTracker call, its arguments and,
                      \* for start_query, what it replaced in the active slot
    pc,               \* where ObservableAgent.run is
    max_steps,        \* self.max_steps
    system_prompt,    \* self.system_prompt
    messages,         \* the conversation history of the run
    step_number,      \* the loop variable of run
    final_answer,     \* final_answer of run
    stagnation,       \* the last check_output_stagnation call and its verdict
    step,             \* the AgentStep of the current iteration
    tool_calls,       \* assistant_message.tool_calls of the current iteration
    loop_flags,       \* loop_result.is_looping for each requested call
    tasks,            \* tool_call_tasks handed to asyncio.gather
    trace_steps,      \* the AgentSteps passed to tracer.log_step
    trace_status,     \* the status passed to tracer.end_trace
    gateway_calls,    \* number of acompletion calls issued
    responses,        \* usage and model of the responses acompletion returned
    registry_log,     \* registry.get_tool / tool.execute calls made
    budget,           \* tool calls the gateway may still request
    user_query,       \* the query of the run
    result,           \* the dict run returned
    phase,            \* where main is in the pipeline
    agent_queries,    \* self.cost_tracker.queries of each agent main created
    global_queries,   \* queries of the module-level cost_tracker main imports
    phase_results,    \* the results the runs of the pipeline returned
    printed           \* what cost_tracker.print_cost_breakdown() printed

main_vars == <<phase, agent_queries, global_queries, phase_results, printed>>
tracker_vars == <<queries, current_query, raised, last_call>>
agent_vars == <<main_vars, pc, stagnation, max_steps, system_prompt, messages,
                step_number, final_answer, step, tool_calls, loop_flags,
                tasks, trace_steps, trace_status, gateway_calls, responses,
                registry_log, budget, user_query, result>>
vars == <<queries, current_query, raised, last_call, pc, stagnation,
          max_steps, system_prompt, messages, step_number, final_answer,
          step, tool_calls, loop_flags, tasks, trace_steps, trace_status,
          gateway_calls, responses, registry_log, budget, user_query, result,
          phase, agent_queries, global_queries, phase_results, printed>>

\* ------------------------------------------------------------ cost tracker

StepCost(n, model, input_tokens, output_tokens, cost_usd, is_tool_call) ==
    [step_number |-> n, model |-> model, input_tokens |-> input_tokens,
     output_tokens |-> output_tokens, cost_usd |-> cost_usd,
     is_tool_call |-> is_tool_call]

QueryCost(query) ==
    [query |-> query, steps |-> <<>>, total_cost_usd |-> 0,
     total_input_tokens |-> 0, total_output_tokens |-> 0]

\* add_step that forgets the output-token total
add_step_NoOutputTotal(qc, sc) ==
    [qc EXCEPT !.steps = Append(@, sc),
               !.total_cost_usd = @ + sc.cost_usd,
               !.total_input_tokens = @ + sc.input_tokens]

add_step(qc, sc) ==
    [qc EXCEPT !.steps = Append(@, sc),
               !.total_cost_usd = @ + sc.cost_usd,
               !.total_input_tokens = @ + sc.input_tokens,
               !.total_output_tokens = @ + sc.output_tokens]

\* getattr(usage, 'prompt_tokens', 0) / getattr(usage, 'completion_tokens', 0)
TokenAttr(usage, name) ==
    IF name \in DOMAIN usage THEN usage[name] ELSE 0

\* getattr(response, 'model', 'gpt-4o-mini')
ModelAttr(response) ==
    IF response.model = NoModel THEN "gpt-4o-mini" ELSE response.model

\* the cost with the two rates swapped
CompletionCost_RatesSwapped(input_tokens, output_tokens) ==
    input_tokens * OutputRate + output_tokens * InputRate

\* (input_tokens / 1_000_000) * 0.15 + (output_tokens / 1_000_000) * 0.60
CompletionCost(input_tokens, output_tokens) ==
    input_tokens * InputRate + output_tokens * OutputRate

\* log_completion without the early return on absent usage
LogCompletionRecords_IgnoresUsage(cur, response) == cur # <<>>

\* log_completion is past both early returns
LogCompletionRecords(cur, response) ==
    cur # <<>> /\ response.usage.present

\* None / 1_000_000 raises TypeError
LogCompletionRaises(cur, response) ==
    /\ LogCompletionRecords(cur, response)
    /\ \/ TokenAttr(response.usage, "prompt_tokens") = NoneTok
       \/ TokenAttr(response.usage, "completion_tokens") = NoneTok

TypeErrorText == "unsupported operand type(s) for /: 'NoneType' and 'int'"

\* the value of _current_query after log_completion returns or raises
log_completion(cur, n, response, is_tool_call) ==
    IF ~LogCompletionRecords(cur, response) \/ LogCompletionRaises(cur, response)
    THEN cur
    ELSE LET input_tokens == TokenAttr(response.usage, "prompt_tokens")
             output_tokens == TokenAttr(response.usage, "completion_tokens")
         IN  <<add_step(cur[1],
                        StepCost(n, ModelAttr(response), input_tokens,
                                 output_tokens,
                                 CompletionCost(input_tokens, output_tokens),
                                 is_tool_call))>>

\* end_query that puts the ledger at the front of the completed list
end_query_queries_AtFront(qs, cur) ==
    IF cur # <<>> THEN <<cur[1]>> \o qs ELSE qs

\* the value of queries after end_query
end_query_queries(qs, cur) ==
    IF cur # <<>> THEN Append(qs, cur[1]) ELSE qs

\* ------------------------------------------------- gateway responses (input)

Usage(p, c) == [present |-> TRUE, prompt_tokens |-> p, completion_tokens |-> c]
NoUsage == [present |-> FALSE]
NoFieldUsage == [present |-> TRUE]

Queries == {"What is 2+2?", "q2"}

\* the (step_number, response, is_tool_call) triples log_completion is driven with
LogInputs ==
    { <<1, [usage |-> Usage(1000, 500), model |-> NoModel], FALSE>>,
      <<2, [usage |-> Usage(1, 2), model |-> "gemini/gemini-1.5-flash"], TRUE>>,
      <<1, [usage |-> NoFieldUsage, model |-> NoModel], FALSE>>,
      <<1, [usage |-> NoUsage, model |-> NoModel], FALSE>>,
      <<2, [usage |-> Usage(NoneTok, 5), model |-> NoModel], FALSE>>,
      <<2, [usage |-> Usage(5, NoneTok), model |-> NoModel], FALSE>> }

\* ------------------------------------------------------------------- Init

\* the system prompts an agent is constructed with: None (the default), the
\* empty text and a text
SystemPrompts == {NoneVal, "", "You are a world-class researcher"}

NoResult == [status |-> "none"]
NoCall == [op |-> "none"]
NotPrinted == [called |-> FALSE]

\* the agents main creates, in pipeline order
Agents == {"Researcher", "Analyst", "Writer"}
NoStagnationCheck == [checked |-> FALSE]
NoStep == [step_number |-> 0]

Init ==
    /\ queries = <<>>
    /\ current_query = <<>>
    /\ raised = FALSE
    /\ last_call = NoCall
    /\ pc = "idle"
    /\ max_steps \in 0..MaxStepsBound
    /\ system_prompt \in SystemPrompts
    /\ messages = <<>>
    /\ step_number = 0
    /\ final_answer = NoneVal
    /\ stagnation = NoStagnationCheck
    /\ step = NoStep
    /\ tool_calls = <<>>
    /\ loop_flags = <<>>
    /\ tasks = <<>>
    /\ trace_steps = <<>>
    /\ trace_status = "none"
    /\ gateway_calls = 0
    /\ responses = <<>>
    /\ registry_log = <<>>
    /\ budget = 0
    /\ user_query = NoneVal
    /\ result = NoResult
    /\ phase = "research"
    /\ agent_queries = [a \in Agents |-> <<>>]
    /\ global_queries = <<>>
    /\ phase_results = <<>>
    /\ printed = NotPrinted

\* --------------------------------------------------- tools and arguments

\* the tools registry.get_tool resolves; any other name resolves to None
Registered == {"calc", "boom"}

\* tool.execute(**tool_input) raises for this tool
ExecuteRaises(tool_name) == tool_name = "boom"

\* str(tool.execute(**tool_input))
ExecuteOutput(tool_name) == "42"

ValidArgs == "{\"x\": 1}"
MalformedArgs == "{bad"
EmptyArgs == ""

\* json.loads(text) returns (it raises on malformed and on empty text)
JsonParses(text) == text = ValidArgs

\* json.loads(text), a dict as its set of items
JsonLoads(text) == IF text = ValidArgs THEN {<<"x", 1>>} ELSE {}

JsonErrorText(text) ==
    IF text = EmptyArgs
    THEN "Expecting value: line 1 column 1 (char 0)"
    ELSE "Expecting property name enclosed in double quotes: line 1 column 2 (char 1)"

\* _execute_tool with an empty text for a tool that is not found
ExecuteToolResult_EmptyNotFound(tool_name, tool_input_str) ==
    IF tool_name \notin Registered
    THEN ""
    ELSE IF ~JsonParses(tool_input_str)
    THEN "Error executing " \o tool_name \o ": " \o JsonErrorText(tool_input_str)
    ELSE IF ExecuteRaises(tool_name)
    THEN "Error executing " \o tool_name \o ": " \o tool_name \o " failed"
    ELSE ExecuteOutput(tool_name)

\* the result text of _execute_tool
ExecuteToolResult(tool_name, tool_input_str) ==
    IF tool_name \notin Registered
    THEN "Error: Tool '" \o tool_name \o "' not found"
    ELSE IF ~JsonParses(tool_input_str)
    THEN "Error executing " \o tool_name \o ": " \o JsonErrorText(tool_input_str)
    ELSE IF ExecuteRaises(tool_name)
    THEN "Error executing " \o tool_name \o ": " \o tool_name \o " failed"
    ELSE ExecuteOutput(tool_name)

\* _execute_tool reaches tool.execute
ExecuteInvoked(tool_name, tool_input_str) ==
    tool_name \in Registered /\ JsonParses(tool_input_str)

\* the function part of a requested tool call
CallShapes ==
    { [name |-> "calc", arguments |-> ValidArgs],
      [name |-> "boom", arguments |-> ValidArgs],
      [name |-> "ghost", arguments |-> ValidArgs],
      [name |-> "calc", arguments |-> MalformedArgs],
      [name |-> "calc", arguments |-> EmptyArgs] }

CallId(n, k) == "call_" \o ToString(n) \o "_" \o ToString(k)

Min(a, b) == IF a < b THEN a ELSE b

\* the tool-call lists a response of step n may carry
ToolCallLists(n, most) ==
    UNION { { [k \in 1..len |->
                 [id |-> CallId(n, k), name |-> f[k].name,
                  arguments |-> f[k].arguments]] : f \in [1..len -> CallShapes] }
            : len \in 0..most }

Contents == {NoneVal, "4"}

\* the responses acompletion may return at step n
Responses(n, most) ==
    [content : Contents,
     tool_calls : ToolCallLists(n, most),
     usage : {NoUsage, Usage(1000, 500)},
     model : {"gemini/gemini-1.5-flash"}]
    \cup
    { [content |-> "4", tool_calls |-> <<>>, usage |-> Usage(NoneTok, 5),
       model |-> "gemini/gemini-1.5-flash"] }

TraceId == "trace-1"

\* what cost accounting reads of a response: response.usage, response.model
ResponseSeen(n, response) ==
    [step_number |-> n, usage |-> response.usage, model |-> response.model]

\* ----------------------------------------------------------- run, helpers

\* lines 51-54; `if self.system_prompt:` is false for None and for ""
InitialMessages(prompt, query) ==
    (IF prompt \notin {NoneVal, ""}
     THEN <<[role |-> "system", content |-> prompt]>>
     ELSE <<>>)
    \o <<[role |-> "user", content |-> query]>>

\* AgentStep numbered from 0, as range(self.max_steps) would
AgentStep_FromZero(n, reasoning, usage) ==
    [step_number |-> n - 1, reasoning |-> reasoning, tool_calls |-> <<>>,
     input_tokens |-> TokenAttr(usage, "prompt_tokens"),
     output_tokens |-> TokenAttr(usage, "completion_tokens"),
     cost_usd |-> CompletionCost(TokenAttr(usage, "prompt_tokens"),
                                 TokenAttr(usage, "completion_tokens"))]

AgentStep(n, reasoning, usage) ==
    LET input_tokens == TokenAttr(usage, "prompt_tokens")
        output_tokens == TokenAttr(usage, "completion_tokens")
    IN  [step_number |-> n, reasoning |-> reasoning, tool_calls |-> <<>>,
         input_tokens |-> input_tokens, output_tokens |-> output_tokens,
         cost_usd |-> CompletionCost(input_tokens, output_tokens)]

\* an absent or empty tool-call list is <<>>, in the response and in the message
AssistantMessage(response) ==
    [role |-> "assistant", content |-> response.content,
     tool_calls |-> response.tool_calls]

\* the loop warning; the code puts a warning sign (U+26A0 U+FE0F) and a space
\* before "LOOP DETECTED", which a string of this module cannot hold
LoopWarning(tool_call) ==
    [role |-> "tool", tool_call_id |-> tool_call.id, name |-> tool_call.name,
     content |-> "LOOP DETECTED: repeated call of " \o tool_call.name]

RECURSIVE LoopWarnings(_, _)
\* the warnings appended while the requested calls are walked
LoopWarnings(calls, flags) ==
    IF calls = <<>> THEN <<>>
    ELSE (IF Head(flags) THEN <<LoopWarning(Head(calls))>> ELSE <<>>)
         \o LoopWarnings(Tail(calls), Tail(flags))

RECURSIVE ToolCallTasks_NoContinue(_, _)
\* tool_call_tasks when the `continue` after the loop warning is missing
ToolCallTasks_NoContinue(calls, flags) ==
    IF calls = <<>> THEN <<>>
    ELSE <<[tool_call |-> Head(calls), tool_name |-> Head(calls).name,
            tool_input_str |-> Head(calls).arguments,
            state |-> "pending", result |-> NoneVal]>>
         \o ToolCallTasks_NoContinue(Tail(calls), Tail(flags))

RECURSIVE ToolCallTasks(_, _)
\* tool_call_tasks: one _execute_tool coroutine per call that was not flagged
ToolCallTasks(calls, flags) ==
    IF calls = <<>> THEN <<>>
    ELSE (IF Head(flags) THEN <<>>
          ELSE <<[tool_call |-> Head(calls), tool_name |-> Head(calls).name,
                  tool_input_str |-> Head(calls).arguments,
                  state |-> "pending", result |-> NoneVal]>>)
         \o ToolCallTasks(Tail(calls), Tail(flags))

\* a join that returns on the first completed task
GatherDone_FirstCompleted(ts) ==
    ts = <<>> \/ \E i \in 1..Len(ts) : ts[i].state = "done"

\* asyncio.gather returns once every awaitable is done
GatherDone(ts) == \A i \in 1..Len(ts) : ts[i].state = "done"

\* the results in the order the tasks were run (asyncio.as_completed)
GatherResults_AsCompleted(ts) ==
    LET started == SelectSeq(registry_log, LAMBDA e : e.op = "get_tool")
        TaskOf(id) == CHOOSE i \in 1..Len(ts) : ts[i].tool_call.id = id
    IN  [k \in 1..Len(ts) |->
            [tool_name |-> ts[TaskOf(started[k].id)].tool_name,
             tool_input_str |-> ts[TaskOf(started[k].id)].tool_input_str,
             tool_output |-> ts[TaskOf(started[k].id)].result]]

\* asyncio.gather: the results in the order of the awaitables
GatherResults(ts) ==
    [i \in 1..Len(ts) |->
        [tool_name |-> ts[i].tool_name, tool_input_str |-> ts[i].tool_input_str,
         tool_output |-> ts[i].result]]

\* zip(tool_calls, tool_results): the k-th requested call with the k-th result
ZipCall(calls, k) == calls[k]

\* the record's arguments are never parsed again
RecordRaises_Never(r) == FALSE

\* json.loads(tool_input_str) if tool_input_str else {}  raises
RecordRaises(r) == r.tool_input_str # EmptyArgs /\ ~JsonParses(r.tool_input_str)

\* the index of the first result whose record cannot be built, or 0
FirstRaising(results) ==
    IF \E k \in 1..Len(results) : RecordRaises(results[k])
    THEN CHOOSE k \in 1..Len(results) :
            /\ RecordRaises(results[k])
            /\ \A j \in 1..(k - 1) : ~RecordRaises(results[j])
    ELSE 0

ToolCallRecord(r) ==
    [tool_name |-> r.tool_name,
     tool_input |-> IF r.tool_input_str # EmptyArgs
                    THEN JsonLoads(r.tool_input_str) ELSE {},
     tool_output |-> r.tool_output]

ToolMessage(tool_call, r) ==
    [role |-> "tool", tool_call_id |-> tool_call.id, name |-> r.tool_name,
     content |-> r.tool_output]

\* the ToolCallRecords and tool messages appended for the first n results
FoldedRecords(results, n) == [k \in 1..n |-> ToolCallRecord(results[k])]
FoldedMessages(calls, results, n) ==
    [k \in 1..n |-> ToolMessage(ZipCall(calls, k), results[k])]

\* a loop that runs one iteration too many
LoopContinues_OneMore(n, ms) == n <= ms

\* range(1, self.max_steps + 1) has a value after n
LoopContinues(n, ms) == n < ms

MaxStepsAnswer(ms) ==
    "Agent reached max steps (" \o ToString(ms) \o ") without completing the task."

\* the max-steps answer in place of the stagnation answer
StagnationAnswer_AsMaxSteps == MaxStepsAnswer(max_steps)

StagnationAnswer == "Agent stopped due to stagnation: output repeats"

\* `if reasoning:` lets the stagnation check run
StagnationChecked(reasoning) == reasoning \notin {NoneVal, ""}

\* the call check_output_stagnation(reasoning), if made, and its verdict
StagnationCheck(reasoning, is_looping) ==
    IF StagnationChecked(reasoning)
    THEN [checked |-> TRUE, text |-> reasoning, is_looping |-> is_looping]
    ELSE NoStagnationCheck

\* lines 174-187: the completed exit of run
ReturnCompleted(fa, n, ms, cur) ==
    /\ final_answer' = (IF fa = NoneVal THEN MaxStepsAnswer(ms) ELSE fa)
    /\ trace_status' = "completed"
    /\ queries' = end_query_queries(queries, cur)
    /\ current_query' = <<>>
    /\ result' = [answer |-> final_answer', trace_id |-> TraceId,
                  steps |-> n, status |-> "completed"]
    /\ pc' = "returned"

\* lines 189-198: the except exit of run
ReturnError(e, cur) ==
    /\ trace_status' = "error"
    /\ queries' = end_query_queries(queries, cur)
    /\ current_query' = <<>>
    /\ result' = [answer |-> "Error: " \o e, trace_id |-> TraceId,
                  status |-> "error"]
    /\ pc' = "returned"

\* --------------------------------------------- direct CostTracker operations

\* start_query that seals the ledger it finds active
start_query_SealsPrior(query) ==
    /\ Len(queries) < MaxQueries
    /\ queries' = end_query_queries(queries, current_query)
    /\ current_query' = <<QueryCost(query)>>
    /\ raised' = FALSE
    /\ last_call' = [op |-> "start_query", query |-> query,
                     replaced |-> current_query]
    /\ UNCHANGED agent_vars

start_query(query) ==
    /\ Len(queries) < MaxQueries
    /\ current_query' = <<QueryCost(query)>>
    /\ raised' = FALSE
    /\ last_call' = [op |-> "start_query", query |-> query,
                     replaced |-> current_query]
    /\ UNCHANGED <<queries, agent_vars>>

RECURSIVE LoggedSteps(_)
LoggedSteps(ledgers) ==
    IF ledgers = <<>> THEN 0
    ELSE Len(Head(ledgers).steps) + LoggedSteps(Tail(ledgers))

LogCompletion(n, response, is_tool_call) ==
    /\ LogCompletionRecords(current_query, response)
           => LoggedSteps(queries \o current_query) < MaxLoggedSteps
    /\ current_query' = log_completion(current_query, n, response, is_tool_call)
    /\ raised' = LogCompletionRaises(current_query, response)
    /\ last_call' = [op |-> "log_completion", step_number |-> n,
                     response |-> response, is_tool_call |-> is_tool_call]
    /\ UNCHANGED <<queries, agent_vars>>

end_query ==
    /\ queries' = end_query_queries(queries, current_query)
    /\ current_query' = <<>>
    /\ raised' = FALSE
    /\ last_call' = [op |-> "end_query"]
    /\ UNCHANGED agent_vars

TrackerNext ==
    \/ \E q \in Queries : start_query(q)
    \/ \E i \in LogInputs : LogCompletion(i[1], i[2], i[3])
    \/ end_query

TrackerSpec == Init /\ [][TrackerNext]_vars

\* ------------------------------------------------------ ObservableAgent.run

\* run as a do-while loop: the first gateway call is issued before max_steps
\* is looked at
Run_CallsBeforeTest(query) ==
    /\ pc = "idle"
    /\ user_query' = query
    /\ messages' = InitialMessages(system_prompt, query)
    /\ budget' = MaxTotalCalls
    /\ step_number' = 1
    /\ gateway_calls' = gateway_calls + 1
    /\ current_query' = <<QueryCost(query)>>
    /\ pc' = "acompletion"
    /\ trace_status' = "running"
    /\ UNCHANGED <<main_vars, queries, raised, last_call, stagnation, max_steps,
                   system_prompt, final_answer, step, tool_calls, loop_flags,
                   tasks, trace_steps, responses, registry_log, result>>

\* run up to the first await: lines 45-72
Run(query) ==
    /\ pc = "idle"
    /\ user_query' = query
    /\ messages' = InitialMessages(system_prompt, query)
    /\ budget' = MaxTotalCalls
    /\ UNCHANGED <<main_vars, raised, last_call, stagnation, max_steps,
                   system_prompt,
                   step, tool_calls, loop_flags, tasks, trace_steps,
                   responses, registry_log>>
    /\ IF LoopContinues(0, max_steps)
       THEN /\ step_number' = 1
            /\ gateway_calls' = gateway_calls + 1
            /\ current_query' = <<QueryCost(query)>>
            /\ pc' = "acompletion"
            /\ trace_status' = "running"
            /\ UNCHANGED <<queries, final_answer, result>>
       ELSE /\ step_number' = 0
            /\ gateway_calls' = gateway_calls
            /\ ReturnCompleted(NoneVal, 0, max_steps, <<QueryCost(query)>>)

\* acompletion raises: lines 67-72, 189-198
GatewayFault ==
    /\ pc = "acompletion"
    /\ ReturnError("gateway failure", current_query)
    /\ UNCHANGED <<main_vars, raised, last_call, stagnation, max_steps,
                   system_prompt,
                   messages, step_number, final_answer, step, tool_calls,
                   loop_flags, tasks, trace_steps, gateway_calls, responses,
                   registry_log, budget, user_query>>

\* acompletion returns and cost_tracker.log_completion raises: lines 77, 189-198
GatewayReturnLogRaises(response) ==
    /\ LogCompletionRaises(current_query, response)
    /\ ReturnError(TypeErrorText, current_query)
    /\ responses' = Append(responses, ResponseSeen(step_number, response))
    /\ UNCHANGED <<main_vars, raised, last_call, stagnation, max_steps,
                   system_prompt,
                   messages, step_number, final_answer, step, tool_calls,
                   loop_flags, tasks, trace_steps, gateway_calls,
                   registry_log, budget, user_query>>

\* acompletion returns a response without tool calls: lines 74-114, 174-187
GatewayReturnFinal(response) ==
    /\ ~LogCompletionRaises(current_query, response)
    /\ response.tool_calls = <<>>
    /\ step' = AgentStep(step_number, response.content, response.usage)
    /\ messages' = Append(messages, AssistantMessage(response))
    /\ trace_steps' = Append(trace_steps, step')
    /\ ReturnCompleted(response.content, step_number, max_steps,
                       log_completion(current_query, step_number, response, FALSE))
    /\ responses' = Append(responses, ResponseSeen(step_number, response))
    /\ UNCHANGED <<main_vars, raised, last_call, stagnation, max_steps,
                   system_prompt,
                   step_number, tool_calls, loop_flags, tasks, gateway_calls,
                   registry_log, budget, user_query>>

\* acompletion returns a response with tool calls, which are checked for
\* loops and handed to asyncio.gather: lines 74-145
GatewayReturnDispatch(response, flags) ==
    /\ ~LogCompletionRaises(current_query, response)
    /\ response.tool_calls # <<>>
    /\ current_query' = log_completion(current_query, step_number, response, FALSE)
    /\ step' = AgentStep(step_number, response.content, response.usage)
    /\ tool_calls' = response.tool_calls
    /\ loop_flags' = flags
    /\ messages' = Append(messages, AssistantMessage(response))
                   \o LoopWarnings(response.tool_calls, flags)
    /\ tasks' = ToolCallTasks(response.tool_calls, flags)
    /\ registry_log' = <<>>
    /\ budget' = budget - Len(response.tool_calls)
    /\ pc' = "gather"
    /\ responses' = Append(responses, ResponseSeen(step_number, response))
    /\ UNCHANGED <<main_vars, queries, raised, last_call, stagnation, max_steps,
                   system_prompt, step_number, final_answer, trace_steps,
                   trace_status, gateway_calls, user_query, result>>

GatewayReturn ==
    /\ pc = "acompletion"
    /\ \E response \in Responses(step_number, Min(MaxCalls, budget)) :
          \/ GatewayReturnLogRaises(response)
          \/ GatewayReturnFinal(response)
          \/ \E flags \in [1..Len(response.tool_calls) -> BOOLEAN] :
                GatewayReturnDispatch(response, flags)

\* the event loop starts one queued _execute_tool; it has no await inside,
\* so no other task runs until it returns; which queued task the loop picks
\* is left open: lines 200-205
ToolStart(i) ==
    /\ pc = "gather"
    /\ tasks[i].state = "pending"
    /\ \A j \in 1..Len(tasks) : tasks[j].state # "running"
    /\ tasks' = [tasks EXCEPT ![i].state = "running"]
    /\ registry_log' = Append(registry_log,
                              [op |-> "get_tool", id |-> tasks[i].tool_call.id,
                               name |-> tasks[i].tool_name])
    /\ UNCHANGED <<main_vars, tracker_vars, stagnation, pc, max_steps,
                   system_prompt,
                   messages, step_number, final_answer, step, tool_calls,
                   loop_flags, trace_steps, trace_status, gateway_calls,
                   responses, budget, user_query, result>>

\* _execute_tool returns its tuple: lines 206-215
ToolReturn(i) ==
    /\ pc = "gather"
    /\ tasks[i].state = "running"
    /\ tasks' = [tasks EXCEPT
                   ![i].state = "done",
                   ![i].result = ExecuteToolResult(tasks[i].tool_name,
                                                   tasks[i].tool_input_str)]
    /\ registry_log' =
          IF ExecuteInvoked(tasks[i].tool_name, tasks[i].tool_input_str)
          THEN Append(registry_log,
                      [op |-> "execute", id |-> tasks[i].tool_call.id,
                       name |-> tasks[i].tool_name])
          ELSE registry_log
    /\ UNCHANGED <<main_vars, tracker_vars, stagnation, pc, max_steps,
                   system_prompt,
                   messages, step_number, final_answer, step, tool_calls,
                   loop_flags, trace_steps, trace_status, gateway_calls,
                   responses, budget, user_query, result>>

\* gather returns and building a ToolCallRecord raises: lines 145-161, 189-198
JoinRaises ==
    LET results == GatherResults(tasks)
        bad == FirstRaising(results)
    IN  /\ bad # 0
        /\ step' = [step EXCEPT !.tool_calls = FoldedRecords(results, bad - 1)]
        /\ messages' = messages \o FoldedMessages(tool_calls, results, bad - 1)
        /\ ReturnError(JsonErrorText(results[bad].tool_input_str), current_query)
        /\ UNCHANGED <<main_vars, raised, last_call, stagnation, max_steps,
                       system_prompt,
                       step_number, final_answer, tool_calls, loop_flags,
                       tasks, trace_steps, gateway_calls, responses,
                       registry_log, budget, user_query>>

\* gather returns, the results are folded, the step is logged and the
\* stagnation check decides how the loop goes on: lines 145-187
JoinFolds(is_looping) ==
    LET results == GatherResults(tasks)
        n == Len(results)
    IN  /\ FirstRaising(results) = 0
        /\ is_looping => StagnationChecked(step.reasoning)
        /\ stagnation' = StagnationCheck(step.reasoning, is_looping)
        /\ step' = [step EXCEPT !.tool_calls = FoldedRecords(results, n)]
        /\ messages' = messages \o FoldedMessages(tool_calls, results, n)
        /\ trace_steps' = Append(trace_steps, step')
        /\ UNCHANGED <<main_vars, raised, last_call, max_steps,
                       system_prompt, tool_calls,
                       loop_flags, tasks, responses, registry_log, budget,
                       user_query>>
        /\ IF is_looping
           THEN /\ ReturnCompleted(StagnationAnswer, step_number, max_steps,
                                   current_query)
                /\ UNCHANGED <<step_number, gateway_calls>>
           ELSE IF LoopContinues(step_number, max_steps)
           THEN /\ step_number' = step_number + 1
                /\ gateway_calls' = gateway_calls + 1
                /\ pc' = "acompletion"
                /\ UNCHANGED <<queries, current_query, final_answer,
                               trace_status, result>>
           ELSE /\ ReturnCompleted(NoneVal, step_number, max_steps,
                                   current_query)
                /\ UNCHANGED <<step_number, gateway_calls>>

Join ==
    /\ pc = "gather"
    /\ GatherDone(tasks)
    /\ \/ JoinRaises
       \/ \E is_looping \in BOOLEAN : JoinFolds(is_looping)

Next ==
    \/ \E query \in Queries : Run(query)
    \/ GatewayFault
    \/ GatewayReturn
    \/ \E i \in 1..Len(tasks) : ToolStart(i)
    \/ \E i \in 1..Len(tasks) : ToolReturn(i)
    \/ Join

Spec == Init /\ [][Next]_vars

\* the event loop runs a queued or started tool execution
ToolStep == \E i \in 1..Len(tasks) : ToolStart(i) \/ ToolReturn(i)

\* a step of a run that was started
RunStep == GatewayFault \/ GatewayReturn \/ ToolStep \/ Join

\* every gateway call returns a value or a fault, every tool invocation is
\* started and returns, and run is resumed when gather is done: a run that
\* can take a step takes one
FairSpec == Spec /\ WF_vars(RunStep)

\* ------------------------------------------------------------------- main

\* max_steps of create_researcher, create_analyst and create_writer
ResearcherMaxSteps == 15
AnalystMaxSteps == 20
WriterMaxSteps == 4

MaxStepsOf(agent) ==
    CASE agent = "Researcher" -> ResearcherMaxSteps
      [] agent = "Analyst" -> AnalystMaxSteps
      [] agent = "Writer" -> WriterMaxSteps

\* system_prompt of create_researcher, create_analyst and create_writer
ResearcherPrompt ==
    "You are a world-class researcher with expertise in finding and extracting information.\n\nYour capabilities:\n- Search the web for current, accurate information\n- Extract key facts and data from sources\n- Verify information across multiple sources\n\nYour approach:\n1. Break down complex queries into searchable sub-questions\n2. Use search tools to find relevant information\n3. Extract and organize key findings\n\nBe thorough, accurate, and cite your sources."
AnalystPrompt ==
    "You are an expert analyst with deep skills in evaluation and critical thinking.\n\nYour capabilities:\n- Cross-reference information from multiple sources\n- Identify patterns, trends, and inconsistencies\n- Draw evidence-based conclusions\n\nYour approach:\n1. Examine all available information systematically\n2. Look for patterns and contradictions\n3. Synthesize findings into clear insights\n\nBe thorough, skeptical, and evidence-based."
WriterPrompt ==
    "You are a skilled writer who transforms complex analysis into clear, engaging content.\n\nYour capabilities:\n- Synthesize complex information into readable prose\n- Structure content logically and coherently\n- Create compelling narratives from data\n\nYour approach:\n1. Review all research and analysis provided\n2. Structure the content logically\n3. Write clearly and engagingly\n\nBe clear, concise, and compelling."

SystemPromptOf(agent) ==
    CASE agent = "Researcher" -> ResearcherPrompt
      [] agent = "Analyst" -> AnalystPrompt
      [] agent = "Writer" -> WriterPrompt

\* the query main is started with (sys.argv[1])
MainQuery == "What is 2+2?"

AnalysisQuery(research_output) ==
    "Analyze the following research findings and provide insights:\n\n"
    \o research_output

WritingQuery(research_output, analysis_output) ==
    "Write a polished, comprehensive report based on this research and analysis:\n\nResearch:\n"
    \o research_output \o "\n\nAnalysis:\n" \o analysis_output

RECURSIVE TotalOf(_, _)
\* the sum print_cost_breakdown accumulates over the ledgers
TotalOf(qs, field) ==
    IF qs = <<>> THEN 0 ELSE Head(qs)[field] + TotalOf(Tail(qs), field)

\* what print_cost_breakdown prints for a tracker with these completed ledgers
print_cost_breakdown(qs) ==
    IF qs = <<>>
    THEN [called |-> TRUE, text |-> "No queries tracked yet."]
    ELSE [called |-> TRUE, text |-> "COST BREAKDOWN", queries |-> Len(qs),
          total_cost |-> TotalOf(qs, "total_cost_usd"),
          total_input |-> TotalOf(qs, "total_input_tokens"),
          total_output |-> TotalOf(qs, "total_output_tokens")]

\* main has created its three agents (lines 27-29); the run variables are
\* those of the agent whose run main awaits, first the Researcher; the
\* module-level cost_tracker is empty
MainInit ==
    /\ queries = <<>>
    /\ current_query = <<>>
    /\ raised = FALSE
    /\ last_call = NoCall
    /\ pc = "idle"
    /\ max_steps = MaxStepsOf("Researcher")
    /\ system_prompt = SystemPromptOf("Researcher")
    /\ messages = <<>>
    /\ step_number = 0
    /\ final_answer = NoneVal
    /\ stagnation = NoStagnationCheck
    /\ step = NoStep
    /\ tool_calls = <<>>
    /\ loop_flags = <<>>
    /\ tasks = <<>>
    /\ trace_steps = <<>>
    /\ trace_status = "none"
    /\ gateway_calls = 0
    /\ responses = <<>>
    /\ registry_log = <<>>
    /\ budget = 0
    /\ user_query = NoneVal
    /\ result = NoResult
    /\ phase = "research"
    /\ agent_queries = [a \in Agents |-> <<>>]
    /\ global_queries = <<>>
    /\ phase_results = <<>>
    /\ printed = NotPrinted

\* main turns to the next agent it created: the run variables become those
\* of that agent as ObservableAgent.__init__ left it (lines 25-43)
Constructed(agent) ==
    /\ queries' = <<>>
    /\ current_query' = <<>>
    /\ raised' = FALSE
    /\ last_call' = NoCall
    /\ pc' = "idle"
    /\ max_steps' = MaxStepsOf(agent)
    /\ system_prompt' = SystemPromptOf(agent)
    /\ messages' = <<>>
    /\ step_number' = 0
    /\ final_answer' = NoneVal
    /\ stagnation' = NoStagnationCheck
    /\ step' = NoStep
    /\ tool_calls' = <<>>
    /\ loop_flags' = <<>>
    /\ tasks' = <<>>
    /\ trace_steps' = <<>>
    /\ trace_status' = "none"
    /\ gateway_calls' = 0
    /\ responses' = <<>>
    /\ registry_log' = <<>>
    /\ budget' = 0
    /\ user_query' = NoneVal
    /\ result' = NoResult

\* the run variables stay those of the agent whose run returned
SameAgent ==
    UNCHANGED <<tracker_vars, pc, stagnation, max_steps, system_prompt,
                messages, step_number, final_answer, step, tool_calls,
                loop_flags, tasks, trace_steps, trace_status, gateway_calls,
                responses, registry_log, budget, user_query, result>>

\* `await agent.run(...)` hands main the dict the run returned; the ledger
\* of the run is in the agent's own CostTracker (self.cost_tracker), the
\* module-level cost_tracker is not touched
RunReturned(agent) ==
    /\ pc = "returned"
    /\ phase_results' = Append(phase_results, result)
    /\ agent_queries' = [agent_queries EXCEPT ![agent] = queries]
    /\ UNCHANGED global_queries

\* a phase failed: main prints the breakdown of the module-level cost_tracker
\* and returns
PhaseFailed ==
    /\ printed' = print_cost_breakdown(global_queries)
    /\ phase' = "exit"
    /\ SameAgent

\* main calls the run of the next phase's agent
NextPhase(next, agent) ==
    /\ phase' = next
    /\ Constructed(agent)
    /\ UNCHANGED printed

\* lines 14-35: main up to the first await of researcher.run(query)
Research ==
    /\ phase = "research"
    /\ Run(MainQuery)

\* lines 35-45: researcher.run returned
ResearchDone ==
    /\ phase = "research"
    /\ RunReturned("Researcher")
    /\ IF result.status = "error"
       THEN PhaseFailed
       ELSE NextPhase("analysis", "Analyst")

\* lines 47-50: main up to the first await of analyst.run(analysis_query)
Analysis ==
    /\ phase = "analysis"
    /\ Run(AnalysisQuery(phase_results[1].answer))

\* lines 50-60: analyst.run returned
AnalysisDone ==
    /\ phase = "analysis"
    /\ RunReturned("Analyst")
    /\ IF result.status = "error"
       THEN PhaseFailed
       ELSE NextPhase("writing", "Writer")

\* lines 62-65: main up to the first await of writer.run(writing_query)
Writing ==
    /\ phase = "writing"
    /\ Run(WritingQuery(phase_results[1].answer, phase_results[2].answer))

\* lines 65-90: writer.run returned; the final report and the cost summary,
\* or the failure message and the cost summary
WritingDone ==
    /\ phase = "writing"
    /\ RunReturned("Writer")
    /\ IF result.status = "error"
       THEN PhaseFailed
       ELSE /\ printed' = print_cost_breakdown(global_queries)
            /\ phase' = "exit"
            /\ SameAgent

\* acompletion returns to the run main awaits; the gateway requests no tool
\* in its response number MaxPipelineSteps
PipelineGatewayReturn ==
    /\ GatewayReturn
    /\ step_number >= MaxPipelineSteps => pc' # "gather"

\* the event loop resumes the run main awaits, or runs one of its tool tasks
PipelineRunStep ==
    /\ phase # "exit"
    /\ \/ GatewayFault
       \/ PipelineGatewayReturn
       \/ ToolStep
       \/ Join

MainNext ==
    \/ Research
    \/ ResearchDone
    \/ Analysis
    \/ AnalysisDone
    \/ Writing
    \/ WritingDone
    \/ PipelineRunStep

MainSpec == MainInit /\ [][MainNext]_vars

\* ------------------------------------------------------------------ claims

RECURSIVE SumOf(_, _)
SumOf(steps, field) ==
    IF steps = <<>> THEN 0
    ELSE Head(steps)[field] + SumOf(Tail(steps), field)

TotalsMatch(ledger) ==
    /\ ledger.total_cost_usd = SumOf(ledger.steps, "cost_usd")
    /\ ledger.total_input_tokens = SumOf(ledger.steps, "input_tokens")
    /\ ledger.total_output_tokens = SumOf(ledger.steps, "output_tokens")

Ledgers == queries \o current_query

\* C1: after every start_query, log_completion and end_query call, each
\* ledger of the tracker (the active one and every completed one) has
\* total_cost_usd, total_input_tokens and total_output_tokens equal to the
\* sums of the corresponding fields over its StepCosts.
C1_TotalsAreSums ==
    \A i \in 1..Len(Ledgers) : TotalsMatch(Ledgers[i])

\* a completed ledger and the active ledger both hold StepCosts, one of them
\* two StepCosts of non-zero cost
C1_Witness ==
    /\ Len(queries) >= 1
    /\ current_query # <<>>
    /\ Len(queries[1].steps) = 2
    /\ queries[1].steps[1].cost_usd > 0
    /\ queries[1].steps[2].cost_usd > 0
    /\ Len(current_query[1].steps) = 1
    /\ current_query[1].total_output_tokens > 0

\* -------------------------------------------------------------- C2

Completed == pc = "returned" /\ result.status = "completed"

\* C2: when a run has returned with status completed, the AgentSteps passed
\* to tracer.log_step carry step_number 1, 2, ..., n in that order, where n
\* is the 'steps' value of the result; each step was logged exactly once.
C2_StepNumbersDense ==
    Completed =>
        /\ Len(trace_steps) = result.steps
        /\ \A k \in 1..Len(trace_steps) : trace_steps[k].step_number = k

\* a completed run of two logged steps
C2_Witness ==
    /\ Completed
    /\ result.steps = 2
    /\ Len(trace_steps) = 2
    /\ trace_steps[2].tool_calls # <<>>

\* -------------------------------------------------------------- C3

AssistantMessages == SelectSeq(messages, LAMBDA m : m.role = "assistant")

\* C3: a run whose first gateway response carries no tool-call requests
\* returns after exactly one gateway call with status completed, steps 1 and
\* the response's content as answer; no tool is invoked and exactly one
\* AgentStep is logged.
C3_FirstResponseWithoutTools ==
    (/\ pc = "returned"
     /\ AssistantMessages # <<>>
     /\ AssistantMessages[1].tool_calls = <<>>)
    => /\ result.status = "completed"
       /\ result.steps = 1
       /\ result.answer = AssistantMessages[1].content
       /\ gateway_calls = 1
       /\ registry_log = <<>>
       /\ Len(trace_steps) = 1

\* -------------------------------------------------------------- C4

\* every response of the run requested a tool call, max_steps times over
AllResponsesRequestTools ==
    /\ Len(AssistantMessages) >= max_steps
    /\ \A k \in 1..Len(AssistantMessages) :
          AssistantMessages[k].tool_calls # <<>>

MaxStepsExit ==
    /\ result.status = "completed"
    /\ result.answer = MaxStepsAnswer(max_steps)
    /\ result.steps = max_steps
    /\ gateway_calls = max_steps

\* C4 as stated: a run in which every gateway response requests a tool call,
\* for all max_steps iterations, returns the max-steps answer with
\* steps = max_steps after exactly max_steps gateway calls.
C4_Original ==
    (pc = "returned" /\ AllResponsesRequestTools) => MaxStepsExit

\* C4 amended: the same, for the runs that no fault aborts and that the
\* stagnation check does not end.
C4_MaxStepsExhausted ==
    (/\ pc = "returned"
     /\ AllResponsesRequestTools
     /\ result.status = "completed"
     /\ final_answer # StagnationAnswer)
    => MaxStepsExit

\* a run of two steps, both with tool calls, that ends by exhaustion
C4_Witness ==
    /\ pc = "returned"
    /\ max_steps = 2
    /\ AllResponsesRequestTools
    /\ MaxStepsExit

\* -------------------------------------------------------------- C5

RegistryTouched(id) ==
    \E e \in 1..Len(registry_log) : registry_log[e].id = id

WarnedInHistory(tool_call) ==
    \E m \in 1..Len(messages) :
        /\ messages[m].role = "tool"
        /\ messages[m].tool_call_id = tool_call.id
        /\ messages[m].name = tool_call.name
        /\ messages[m].content = LoopWarning(tool_call).content

StepTasksOver == pc # "gather" \/ \A i \in 1..Len(tasks) : tasks[i].state = "done"

\* C5: a requested call the loop detector flags is never resolved or
\* invoked through the registry in its step, history holds a tool message
\* with the loop warning for it, and the calls of the same step that were
\* not flagged are executed.
C5_FlaggedCallSuppressed ==
    \A k \in 1..Len(tool_calls) :
        /\ loop_flags[k] =>
              /\ ~RegistryTouched(tool_calls[k].id)
              /\ WarnedInHistory(tool_calls[k])
        /\ (~loop_flags[k] /\ StepTasksOver) =>
              \E e \in 1..Len(registry_log) :
                  /\ registry_log[e].op = "get_tool"
                  /\ registry_log[e].id = tool_calls[k].id

\* a step with a flagged call before an executed one, its tasks over
C5_Witness ==
    /\ Len(tool_calls) = 2
    /\ loop_flags[1]
    /\ ~loop_flags[2]
    /\ StepTasksOver
    /\ RegistryTouched(tool_calls[2].id)
    /\ WarnedInHistory(tool_calls[1])

\* -------------------------------------------------------------- C6

\* the tool of the task was absent, or its invocation faulted
TaskFaulted(t) ==
    \/ t.tool_name \notin Registered
    \/ t.tool_input_str # ValidArgs
    \/ t.tool_name = "boom"

IsErrorText(text) ==
    /\ text # NoneVal
    /\ Len(text) > Len("Error")
    /\ \/ SubSeq(text, 1, Len("Error: Tool")) = "Error: Tool"
       \/ SubSeq(text, 1, Len("Error executing")) = "Error executing"

\* the join of a step: gather has returned and run has moved on
JoinStep == pc = "gather" /\ pc' # "gather"

\* the step is logged with one record per task, in task order: an error text
\* for a faulted task, the tool's own output for any other; run did not
\* end in error
FaultsConfined ==
    /\ Len(trace_steps') = Len(trace_steps) + 1
    /\ LET logged == trace_steps'[Len(trace_steps')]
       IN  /\ logged.step_number = step_number
           /\ Len(logged.tool_calls) = Len(tasks)
           /\ \A i \in 1..Len(tasks) :
                 /\ logged.tool_calls[i].tool_name = tasks[i].tool_name
                 /\ IF TaskFaulted(tasks[i])
                    THEN IsErrorText(logged.tool_calls[i].tool_output)
                    ELSE logged.tool_calls[i].tool_output
                            = ExecuteOutput(tasks[i].tool_name)
    /\ result'.status # "error"

SomeTaskFaulted == \E i \in 1..Len(tasks) : TaskFaulted(tasks[i])

AllArgumentsParse ==
    \A i \in 1..Len(tasks) : tasks[i].tool_input_str \in {ValidArgs, EmptyArgs}

\* C6 as stated: when a tool invocation of a step faulted or its tool was
\* absent, the step is logged with an error text for that call and the normal
\* output for its siblings, and the run does not end with status error.
C6_Original ==
    [][(JoinStep /\ SomeTaskFaulted) => FaultsConfined]_vars

\* C6 amended: the same, for the steps in which the argument text of every
\* executed call is empty or parses.
C6_ToolFaultConfined ==
    [][(JoinStep /\ SomeTaskFaulted /\ AllArgumentsParse) => FaultsConfined]_vars

\* a logged step with the error text of an absent tool beside the normal
\* output of its sibling, the run going on to its next step
C6_Witness ==
    /\ pc = "acompletion"
    /\ step_number = 2
    /\ Len(trace_steps) = 1
    /\ Len(trace_steps[1].tool_calls) = 2
    /\ trace_steps[1].tool_calls[1].tool_name = "ghost"
    /\ IsErrorText(trace_steps[1].tool_calls[1].tool_output)
    /\ trace_steps[1].tool_calls[2].tool_output = "42"

\* -------------------------------------------------------------- C7

\* a fault the loop does not recover from: acompletion or the statement
\* after it raises, or gather returns a result whose arguments do not parse
UnrecoveredFault ==
    \/ pc = "acompletion" /\ pc' = "returned" /\ messages' = messages
    \/ JoinStep /\ \E i \in 1..Len(tasks) :
                      tasks[i].tool_input_str = MalformedArgs

RunAborted ==
    /\ pc' = "returned"
    /\ result'.status = "error"
    /\ trace_status' = "error"
    /\ gateway_calls' = gateway_calls
    /\ registry_log' = registry_log
    /\ Len(result'.answer) > Len("Error: ")
    /\ SubSeq(result'.answer, 1, Len("Error: ")) = "Error: "

\* C7: an unrecovered fault in the loop (a failing gateway call at any step,
\* tool-argument text that does not parse) aborts the run: no further gateway
\* call or tool invocation, end_trace with status error, and the result has
\* status error and an answer describing the fault. A returned run takes no
\* further step.
C7_FaultAbortsRun ==
    [][/\ UnrecoveredFault => RunAborted
       /\ pc = "returned" => UNCHANGED vars]_vars

\* a run aborted at the join of its second step by unparseable arguments
C7_Witness ==
    /\ pc = "returned"
    /\ result.status = "error"
    /\ trace_status = "error"
    /\ step_number = 2
    /\ \E i \in 1..Len(tasks) : tasks[i].tool_input_str = MalformedArgs
    /\ result.answer = "Error: " \o JsonErrorText(MalformedArgs)

\* -------------------------------------------------------------- C8

\* C8: on every terminal path the returned result carries the four fields
\* answer, trace_id, steps and status, with status completed or error.
C8_ResultHasFourFields ==
    pc = "returned" =>
        /\ DOMAIN result = {"answer", "trace_id", "steps", "status"}
        /\ result.status \in {"completed", "error"}

\* -------------------------------------------------------------- C9

RECURSIVE Unflagged(_, _)
\* the requested calls that were not flagged, in request order
Unflagged(calls, flags) ==
    IF calls = <<>> THEN <<>>
    ELSE (IF Head(flags) THEN <<>> ELSE <<Head(calls)>>)
         \o Unflagged(Tail(calls), Tail(flags))

\* the output of the execution of the call with this id
OutputOf(id) ==
    LET i == CHOOSE i \in 1..Len(tasks) : tasks[i].tool_call.id = id
    IN  tasks[i].result

\* the messages and records a join appends are, position by position, those
\* of the executed calls in request order
AppendedInRequestOrder ==
    LET executed == Unflagged(tool_calls, loop_flags)
        n == Len(messages') - Len(messages)
        records == step'.tool_calls
    IN  /\ Len(records) = n
        /\ n <= Len(executed)
        /\ pc' # "returned" => n = Len(executed)
        /\ \A k \in 1..n :
              /\ messages'[Len(messages) + k].role = "tool"
              /\ messages'[Len(messages) + k].name = executed[k].name
              /\ messages'[Len(messages) + k].content = OutputOf(executed[k].id)
              /\ records[k].tool_name = executed[k].name
              /\ records[k].tool_output = OutputOf(executed[k].id)

\* C9: at the join of a step the tool messages and ToolCallRecords of the
\* executed calls are appended in the order in which the assistant message
\* requested them, whatever order the executions completed in.
C9_ResultsInRequestOrder ==
    [][JoinStep => AppendedInRequestOrder]_vars

\* a joined step whose second executed call ran first, its two results in
\* history in request order
C9_Witness ==
    /\ pc # "gather"
    /\ Len(tasks) = 2
    /\ tasks[1].tool_name # tasks[2].tool_name
    /\ registry_log[1].id = tasks[2].tool_call.id
    /\ Len(trace_steps) >= 1
    /\ Len(trace_steps[Len(trace_steps)].tool_calls) = 2
    /\ messages[Len(messages) - 1].role = "tool"
    /\ messages[Len(messages) - 1].name = tasks[1].tool_name
    /\ messages[Len(messages) - 1].content = tasks[1].result
    /\ messages[Len(messages)].name = tasks[2].tool_name
    /\ messages[Len(messages)].content = tasks[2].result

\* -------------------------------------------------------------- C10

AllTasksReturned == \A i \in 1..Len(tasks) : tasks[i].state = "done"

\* C10: the tool results of a step are appended to history, the step is
\* logged and the next gateway call is issued only when every tool execution
\* dispatched in the step has returned; outside the join no task is pending.
C10_FanInBarrier ==
    /\ [](pc # "gather" => AllTasksReturned)
    /\ [][(/\ pc = "gather"
           /\ \/ messages' # messages
              \/ trace_steps' # trace_steps
              \/ gateway_calls' # gateway_calls
              \/ pc' # "gather")
          => AllTasksReturned]_vars

\* the gateway call of step 2 issued after both executions of step 1 returned
C10_Witness ==
    /\ pc = "acompletion"
    /\ step_number = 2
    /\ gateway_calls = 2
    /\ Len(tasks) = 2
    /\ AllTasksReturned
    /\ Len(trace_steps) = 1

\* -------------------------------------------------------------- C11

\* two tool invocations of the step have started and neither has returned
TwoStarted ==
    \E i, j \in 1..Len(tasks) :
        i # j /\ tasks[i].state = "running" /\ tasks[j].state = "running"

\* C11: the tool executions of a step run concurrently: while one invocation
\* of the step has started and not returned, a queued sibling can start, which
\* gives a state in which two invocations have both started and neither has
\* returned.
C11_ToolExecutionsInterleave ==
    \A i, j \in 1..Len(tasks) :
        (/\ pc = "gather"
         /\ tasks[i].state = "running"
         /\ tasks[j].state = "pending")
        => ENABLED (ToolStart(j) /\ TwoStarted')

\* -------------------------------------------------------------- C12

\* the step is a call of log_completion
LogCompletionCall == last_call'.op = "log_completion"

\* the call is made with no active ledger or with a response without usage
NothingToRecord ==
    current_query = <<>> \/ ~last_call'.response.usage.present

\* C12: log_completion called when no ledger is active, or with a response
\* whose usage is absent, is a no-op: the active slot with the active ledger's
\* steps and totals and the completed list are unchanged, no StepCost is
\* created and nothing is raised.
C12_LogCompletionNoOp ==
    [][(LogCompletionCall /\ NothingToRecord)
       => /\ current_query' = current_query
          /\ queries' = queries
          /\ LoggedSteps(queries' \o current_query')
                = LoggedSteps(queries \o current_query)
          /\ ~raised']_vars

\* log_completion was just called with a response without usage while a
\* ledger holding one StepCost was active, beside one completed ledger
C12_Witness ==
    /\ last_call.op = "log_completion"
    /\ ~last_call.response.usage.present
    /\ current_query # <<>>
    /\ Len(current_query[1].steps) = 1
    /\ current_query[1].total_cost_usd > 0
    /\ Len(queries) = 1

\* -------------------------------------------------------------- C13

\* the step is a call of end_query
EndQueryCall == last_call'.op = "end_query"

\* C13: end_query with an active ledger appends exactly that ledger, steps
\* and totals unchanged, to the end of the completed list and clears the
\* active slot; with no active ledger it changes nothing; it never raises; so
\* a second end_query right after one changes nothing.
C13_EndQuerySealsOnce ==
    /\ [](last_call.op = "end_query" => current_query = <<>> /\ ~raised)
    /\ [][EndQueryCall
          => /\ current_query' = <<>>
             /\ ~raised'
             /\ IF current_query # <<>>
                THEN queries' = Append(queries, current_query[1])
                ELSE queries' = queries
             /\ last_call.op = "end_query"
                   => UNCHANGED <<queries, current_query>>]_vars

\* end_query has just sealed a ledger of two StepCosts behind an earlier
\* completed ledger of another query
C13_Witness ==
    /\ last_call.op = "end_query"
    /\ current_query = <<>>
    /\ Len(queries) = 2
    /\ queries[1].query # queries[2].query
    /\ Len(queries[2].steps) = 2
    /\ queries[2].total_cost_usd > 0

\* -------------------------------------------------------------- C14

\* the StepCost at the end of the active ledger
LastStepCost(cur) == cur[1].steps[Len(cur[1].steps)]

\* C14: a log_completion call that records appends one StepCost whose
\* cost_usd is tokens_in/1e6*0.15 + tokens_out/1e6*0.60, that is
\* tokens_in*15 + tokens_out*60 in units of 10^-8 USD, whatever the ledger
\* holds and whatever the model; an unspecified model is recorded as the
\* default; for 1000 tokens in and 500 out with unspecified model the cost is
\* 0.00045 USD: 450 millionths, 45000 units.
C14_CostIsRateFunction ==
    [][(LogCompletionCall /\ ~NothingToRecord /\ ~raised')
       => LET usage == last_call'.response.usage
              tokens_in == TokenAttr(usage, "prompt_tokens")
              tokens_out == TokenAttr(usage, "completion_tokens")
              sc == LastStepCost(current_query')
          IN  /\ Len(current_query'[1].steps) = Len(current_query[1].steps) + 1
              /\ sc.input_tokens = tokens_in
              /\ sc.output_tokens = tokens_out
              /\ sc.cost_usd = tokens_in * 15 + tokens_out * 60
              /\ last_call'.response.model = NoModel => sc.model = "gpt-4o-mini"
              /\ (/\ tokens_in = 1000
                  /\ tokens_out = 500
                  /\ last_call'.response.model = NoModel)
                 => sc.cost_usd = 450 * 100]_vars

\* the completion of 1000 tokens in and 500 out with unspecified model was
\* just recorded as the second StepCost of the active ledger
C14_Witness ==
    /\ last_call.op = "log_completion"
    /\ last_call.response.usage = Usage(1000, 500)
    /\ last_call.response.model = NoModel
    /\ current_query # <<>>
    /\ Len(current_query[1].steps) = 2
    /\ LastStepCost(current_query).cost_usd = 45000
    /\ LastStepCost(current_query).model = "gpt-4o-mini"

\* -------------------------------------------------------------- C15

\* C15: no call of a CostTracker operation raises, whatever the tracker holds
\* and whatever the response carries (usage absent, usage without token
\* fields or with null token fields, model absent); so no run returns the
\* error of an accounting fault.
C15_AccountingNeverRaises ==
    /\ ~raised
    /\ pc = "returned" => result.answer # "Error: " \o TypeErrorText

\* -------------------------------------------------------------- C16

\* the join folds the results, logs the step and runs the stagnation check
StagnationCheckRan ==
    /\ JoinStep
    /\ Len(trace_steps') = Len(trace_steps) + 1
    /\ stagnation'.checked

\* the results of the step are in history and the step is logged when the
\* check runs
FoldedAndLogged ==
    /\ Len(messages') = Len(messages) + Len(tasks)
    /\ \A k \in 1..Len(tasks) :
          messages'[Len(messages) + k].content = tasks[k].result
    /\ trace_steps'[Len(trace_steps')].step_number = step_number
    /\ Len(trace_steps'[Len(trace_steps')].tool_calls) = Len(tasks)

StagnationPrefix == "Agent stopped due to stagnation: "

\* the run ends at this step with the stagnation answer
StagnationExit ==
    /\ pc' = "returned"
    /\ gateway_calls' = gateway_calls
    /\ registry_log' = registry_log
    /\ result'.status = "completed"
    /\ result'.steps = step_number
    /\ Len(result'.answer) > Len(StagnationPrefix)
    /\ SubSeq(result'.answer, 1, Len(StagnationPrefix)) = StagnationPrefix
    /\ result'.answer # MaxStepsAnswer(max_steps)

\* C16: the stagnation check is given the reasoning text of the step, never
\* a tool output, and runs after the tool results of the step are folded into
\* history and the step is logged; when it flags at step k, k = max_steps
\* included, the run ends there: no further gateway call, steps = k and the
\* answer is the stagnation answer, not the max-steps answer.
C16_StagnationEndsRun ==
    [][/\ StagnationCheckRan
          => /\ stagnation'.text = step.reasoning
             /\ \A i \in 1..Len(tasks) : stagnation'.text # tasks[i].result
             /\ FoldedAndLogged
       /\ (StagnationCheckRan /\ stagnation'.is_looping) => StagnationExit
       /\ pc = "returned" => UNCHANGED vars]_vars

\* the check flagged in the last iteration, k = max_steps = 2
C16_Witness ==
    /\ pc = "returned"
    /\ stagnation.checked
    /\ stagnation.is_looping
    /\ max_steps = 2
    /\ step_number = 2
    /\ gateway_calls = 2
    /\ result.steps = 2
    /\ result.answer = "Agent stopped due to stagnation: output repeats"
    /\ Len(trace_steps) = 2

\* -------------------------------------------------------------- C17

\* the join folded every result of the step into history
StepFolded == JoinStep /\ Len(trace_steps') = Len(trace_steps) + 1

\* the positions of the tool messages that answer the call with this id
AnswersTo(history, id) ==
    { k \in 1..Len(history) :
        history[k].role = "tool" /\ history[k].tool_call_id = id }

\* C17: after the tool results of a step are folded into history, every
\* tool-call id the assistant message of the step requested is answered by
\* exactly one tool message, and that message carries the tool name of the
\* call with that id and, as content, the loop warning if the call was
\* flagged and the call's own output otherwise.
C17_EveryCallAnsweredByItsOwn ==
    [][StepFolded
       => \A c \in 1..Len(tool_calls) :
             LET answers == AnswersTo(messages', tool_calls[c].id)
             IN  /\ Cardinality(answers) = 1
                 /\ \A k \in answers :
                       /\ messages'[k].name = tool_calls[c].name
                       /\ messages'[k].content =
                             IF loop_flags[c]
                             THEN LoopWarning(tool_calls[c]).content
                             ELSE OutputOf(tool_calls[c].id)]_vars

\* -------------------------------------------------------------- C18

\* the responses of the run that carried usage, in the order received
WithUsage == SelectSeq(responses, LAMBDA r : r.usage.present)

\* the StepCosts are exactly those responses, in step order
StepCostsOf(steps, seen) ==
    /\ Len(steps) = Len(seen)
    /\ \A k \in 1..Len(steps) :
          /\ steps[k].step_number = seen[k].step_number
          /\ steps[k].model = seen[k].model
          /\ steps[k].input_tokens = seen[k].usage.prompt_tokens
          /\ steps[k].output_tokens = seen[k].usage.completion_tokens
    /\ \A j, k \in 1..Len(steps) :
          j < k => steps[j].step_number < steps[k].step_number

RunUnderWay == pc \in {"acompletion", "gather"}

\* C18: a run opens one ledger and seals it. While the run is under way its
\* ledger is the one active ledger and nothing is sealed yet; when the run
\* has returned, on any path, no ledger is active and the completed list has
\* grown by exactly one ledger, whose query is the run's query and whose
\* StepCosts are exactly the responses of the run that carried usage, in step
\* order.
C18_RunSealsItsLedger ==
    /\ RunUnderWay => /\ Len(current_query) = 1
                      /\ current_query[1].query = user_query
                      /\ queries = <<>>
    /\ pc = "returned" => /\ current_query = <<>>
                          /\ Len(queries) = 1
                          /\ queries[1].query = user_query
                          /\ StepCostsOf(queries[1].steps, WithUsage)

\* -------------------------------------------------------------- C19

\* the step is a call of start_query
StartQueryCall == last_call'.op = "start_query"

\* C19: start_query called while a ledger is active abandons that ledger:
\* the active slot is replaced by a fresh ledger of the new query with no
\* steps and zero totals and the completed list is unchanged; the completed
\* list only ever grows by end_query appending the ledger active at that
\* call, so the abandoned ledger never enters it.
C19_StartQueryAbandons ==
    [][/\ (StartQueryCall /\ current_query # <<>>)
          => /\ last_call'.replaced = current_query
             /\ Len(current_query') = 1
             /\ current_query'[1].query = last_call'.query
             /\ current_query'[1].steps = <<>>
             /\ current_query'[1].total_cost_usd = 0
             /\ current_query'[1].total_input_tokens = 0
             /\ current_query'[1].total_output_tokens = 0
             /\ queries' = queries
             /\ ~raised'
       /\ queries' # queries
          => /\ last_call'.op = "end_query"
             /\ current_query # <<>>
             /\ queries' = Append(queries, current_query[1])]_vars

\* start_query has just replaced an active ledger of two StepCosts by a
\* fresh ledger of another query; the completed list holds one other ledger
C19_Witness ==
    /\ last_call.op = "start_query"
    /\ last_call.replaced # <<>>
    /\ Len(last_call.replaced[1].steps) = 2
    /\ last_call.replaced[1].total_cost_usd > 0
    /\ last_call.replaced[1].query # last_call.query
    /\ current_query = <<QueryCost(last_call.query)>>
    /\ Len(queries) = 1
    /\ queries[1] # last_call.replaced[1]

\* -------------------------------------------------------------- C20

\* the four ways run returns, told apart by the path taken
ErrorExit == result.status = "error"
StagnationExitTaken ==
    result.status = "completed" /\ stagnation.checked /\ stagnation.is_looping
FinalAnswerExit ==
    /\ result.status = "completed"
    /\ messages[Len(messages)].role = "assistant"
ExhaustedExit ==
    /\ result.status = "completed"
    /\ messages[Len(messages)].role # "assistant"
    /\ ~(stagnation.checked /\ stagnation.is_looping)
    /\ step_number = max_steps
    /\ gateway_calls = max_steps

ExitsTaken ==
    (IF ErrorExit THEN 1 ELSE 0) + (IF StagnationExitTaken THEN 1 ELSE 0)
    + (IF FinalAnswerExit THEN 1 ELSE 0) + (IF ExhaustedExit THEN 1 ELSE 0)

\* C20: when every gateway call and every tool invocation returns, a run
\* that was started returns; it returns through exactly one of the exits
\* final answer, max steps exhausted, stagnation and error, after at most
\* max_steps gateway calls; once it has returned there is no further gateway
\* call, tool invocation or history append.
C20_RunTerminates ==
    /\ (pc # "idle") ~> (pc = "returned")
    /\ [](gateway_calls <= max_steps)
    /\ [](pc = "returned" => ExitsTaken = 1)
    /\ [][pc = "returned"
          => /\ gateway_calls' = gateway_calls
             /\ registry_log' = registry_log
             /\ messages' = messages
             /\ pc' = "returned"]_vars

\* a run returned through the max-steps exit after max_steps = 2 gateway
\* calls and two tool invocations
C20_Witness ==
    /\ pc = "returned"
    /\ ExhaustedExit
    /\ max_steps = 2
    /\ gateway_calls = 2
    /\ Len(SelectSeq(registry_log, LAMBDA e : e.op = "execute")) >= 1
    /\ Len(trace_steps) = 2

\* -------------------------------------------------------------- C21

\* C21: the cost summary main prints at the end of the pipeline covers the
\* agent runs: the tracker whose breakdown is printed holds one completed
\* ledger for each run that was executed, so the summary is not the
\* "No queries tracked yet." output.
C21_SummaryCoversRuns ==
    printed.called
    => /\ printed.text # "No queries tracked yet."
       /\ printed.queries = Len(phase_results)

====
